---------------------------- MODULE Spec2Model ----------------------------
(***************************************************************************)
(* Ride-the-bus decision-tree solver (src/src/decision/solver.rs), the     *)
(* Choice/Decision abstraction (src/src/decision/mod.rs), the reference    *)
(* game's choices (src/src/main.rs) and the card model (src/src/card.rs).  *)
(*                                                                         *)
(* Numbers.  The program computes in f64.  The model computes in exact     *)
(* rationals <<n, d>> in lowest terms (d > 0); <<0, 0>> stands for the NaN *)
(* that 0.0 / 0.0 yields.  Every pot of the modelled games (1, 2, 3, 4,    *)
(* 5/2, 10) and every sum of at most 52 copies of the pots 1, 2, 3, 4 is   *)
(* exact in f64 too; expected values of multi-stage nodes are rounded in   *)
(* f64 and exact here.                                                     *)
(*                                                                         *)
(* Deck.  deck_iter of the program yields the 52 cards 0..51.  The card    *)
(* model (fmt, from_str) is modelled on all 52; the solver enumerates the  *)
(* cards of the NumRanks lowest ranks (4 * NumRanks cards), a bound.       *)
(***************************************************************************)
EXTENDS Integers, Sequences, FiniteSets, TLC

VARIABLES
    first_decision, \* the DiscreteDecision handed to solve
    pc,             \* "start" | "solved" | "panicked"
    tree,           \* Option<DiscreteDecisionTree> under inspection: <<>> or <<t>>
    text,           \* the string handed to PlayingCard::from_str
    parsed,         \* <<"pending">> | <<"ok", card>> | <<"err">>
    prompt_history, \* interactive_prompt's `history`: the stack of visited trees,
                    \* each a reference into main's tree (the path of
                    \* <<choice, outcome>> positions that leads to it)
    ipc             \* interactive_prompt: "off" | "top" | "prompt" | "panicked" | "exited"

prompt_vars == <<prompt_history, ipc>>

vars == <<first_decision, pc, tree, text, parsed, prompt_history, ipc>>

-----------------------------------------------------------------------------
(* Bounds *)

\* Number of ranks of the deck the solver enumerates (13 in the program).
NumRanks == 3

\* Number of cards, the first of the deck, that the user of the prompt types.
NumTypedCards == 5

-----------------------------------------------------------------------------
(* Exact arithmetic standing for f64 *)

RECURSIVE Gcd(_, _)
Gcd(a, b) == IF b = 0 THEN a ELSE Gcd(b, a % b)

Abs(n) == IF n < 0 THEN -n ELSE n

NaN == <<0, 0>>

IsNaN(r) == r[2] = 0

\* The rational n / d in lowest terms, d # 0.
Rat(n, d) ==
    LET g == Gcd(Abs(n), Abs(d))
        s == IF d < 0 THEN -1 ELSE 1
    IN  <<s * (n \div g), s * (d \div g)>>

Lcm(a, b) == (a \div Gcd(a, b)) * b

FAdd(x, y) ==
    IF IsNaN(x) \/ IsNaN(y) THEN NaN
    ELSE LET l == Lcm(x[2], y[2])
         IN  Rat(x[1] * (l \div x[2]) + y[1] * (l \div y[2]), l)

FMul(x, y) ==
    IF IsNaN(x) \/ IsNaN(y) THEN NaN
    ELSE LET a == Rat(x[1], y[2])
             b == Rat(y[1], x[2])
         IN  <<a[1] * b[1], a[2] * b[2]>>

\* x / n for a count n (`ev_sum / len as f64`); 0.0 / 0.0 is NaN.
FDivCount(x, n) ==
    IF IsNaN(x) \/ (n = 0 /\ x[1] = 0) THEN NaN
    ELSE LET a == Rat(x[1], n)
         IN  <<a[1], a[2] * x[2]>>

\* x < y of f64: false when either is NaN.
FLess(x, y) ==
    /\ ~IsNaN(x)
    /\ ~IsNaN(y)
    /\ LET l == Lcm(x[2], y[2])
       IN  x[1] * (l \div x[2]) < y[1] * (l \div y[2])

\* f64::total_cmp on the values the solver produces: -1 Less, 0 Equal,
\* 1 Greater; a (positive) NaN is above every number.
total_cmp(x, y) ==
    CASE IsNaN(x) /\ IsNaN(y) -> 0
      [] IsNaN(x) -> 1
      [] IsNaN(y) -> -1
      [] FLess(x, y) -> -1
      [] FLess(y, x) -> 1
      [] OTHER -> 0

F(n) == <<n, 1>>

-----------------------------------------------------------------------------
(* card.rs: PlayingCard(u8) *)

suit(c) == c % 4

color(c) == (c % 4) \div 2

rank(c) == (c \div 4) + 2

\* The whole deck, in order: (0..52).map(Self)
deck_iter == [i \in 1..52 |-> i - 1]

\* The cards the solver enumerates: deck_iter cut to the NumRanks lowest ranks.
solver_deck == SubSeq(deck_iter, 1, 4 * NumRanks)

Contains(s, x) == \E i \in 1..Len(s) : s[i] = x

\* A string is a sequence of characters, a character a one-letter string
\* ("long_s" and "eszett" name the letters U+017F and U+00DF).
RANK_LABELS ==
    << <<"2">>, <<"3">>, <<"4">>, <<"5">>, <<"6">>, <<"7">>, <<"8">>, <<"9">>,
       <<"1", "0">>, <<"J">>, <<"Q">>, <<"K">>, <<"A">> >>

SUIT_LABELS == << <<"H">>, <<"D">>, <<"S">>, <<"C">> >>

\* Display for PlayingCard
fmt(c) == RANK_LABELS[(rank(c) - 2) + 1] \o SUIT_LABELS[suit(c) + 1]

\* char::to_uppercase on the letters of the typed texts: a letter may become
\* several, and the long s becomes S.
UpperChar(ch) ==
    CASE ch = "h" -> <<"H">>
      [] ch = "d" -> <<"D">>
      [] ch = "s" -> <<"S">>
      [] ch = "c" -> <<"C">>
      [] ch = "j" -> <<"J">>
      [] ch = "q" -> <<"Q">>
      [] ch = "k" -> <<"K">>
      [] ch = "a" -> <<"A">>
      [] ch = "x" -> <<"X">>
      [] ch = "long_s" -> <<"S">>
      [] ch = "eszett" -> <<"S", "S">>
      [] OTHER -> <<ch>>

\* Mutant: the text is compared as typed.
to_uppercase_skipped(s) == s

\* str::to_uppercase
RECURSIVE to_uppercase(_)
to_uppercase(s) ==
    IF s = <<>> THEN <<>> ELSE UpperChar(Head(s)) \o to_uppercase(Tail(s))

\* FromStr for PlayingCard: the first card of the deck whose label is the
\* upper-cased text, or InvalidCardError.
from_str(s) ==
    LET u == to_uppercase(s)
        found == SelectSeq(deck_iter, LAMBDA c : fmt(c) = u)
    IN  IF found = <<>> THEN <<"err">> ELSE <<"ok", found[1]>>

SeqToSet(s) == {s[i] : i \in 1..Len(s)}

-----------------------------------------------------------------------------
(* decision/mod.rs and main.rs: choices and decisions *)

PickColor == {"Red", "Black"}
PickLatitude == {"Higher", "Lower"}
PickContained == {"Inside", "Outside"}
PickSuit == {"Hearts", "Diamonds", "Spades", "Clubs"}
Choices == PickColor \cup PickLatitude \cup PickContained \cup PickSuit \cup {"Cashout"}

\* DiscreteDecision::new
new(choices) == choices

\* DiscreteDecision::new_with_cashout
new_with_cashout(choices) == Append(new(choices), "Cashout")

\* DiscreteDecision::empty
empty == <<>>

\* How many cards score indexes: cards[0] (PickColor, PickSuit), cards[1]
\* (PickLatitude), cards[2] (PickContained), none (Cashout).
CardsRead(choice) ==
    CASE choice \in PickLatitude -> 2
      [] choice \in PickContained -> 3
      [] choice = "Cashout" -> 0
      [] OTHER -> 1

\* An index of score is out of range: the program panics.
ScorePanics(choice, cards) == Len(cards) < CardsRead(choice)

Min(a, b) == IF a <= b THEN a ELSE b
Max(a, b) == IF a >= b THEN a ELSE b

\* Choice::score; cards[1] here is cards[0] of the program (the new card).
score(choice, cards) ==
    CASE ScorePanics(choice, cards) -> F(0)
      [] choice = "Cashout" -> F(1)
      [] choice \in PickColor ->
            IF (choice = "Red" /\ color(cards[1]) = 0)
               \/ (choice = "Black" /\ color(cards[1]) = 1)
            THEN F(2) ELSE F(0)
      [] choice \in PickLatitude ->
            IF (choice = "Higher") = (rank(cards[1]) >= rank(cards[2]))
            THEN Rat(3, 2) ELSE F(0)
      [] choice \in PickContained ->
            LET c1 == rank(cards[2])
                c2 == rank(cards[3])
                in_bounds == Min(c1, c2) <= rank(cards[1]) /\ rank(cards[1]) <= Max(c1, c2)
            IN  IF (choice = "Inside") = in_bounds THEN Rat(4, 3) ELSE F(0)
      [] choice \in PickSuit ->
            IF \/ (choice = "Hearts" /\ suit(cards[1]) = 0)
               \/ (choice = "Diamonds" /\ suit(cards[1]) = 1)
               \/ (choice = "Spades" /\ suit(cards[1]) = 2)
               \/ (choice = "Clubs" /\ suit(cards[1]) = 3)
            THEN Rat(10, 4) ELSE F(0)

\* Mutant: PickColor leads to the PickContained decision.
next_decision_skips_stage(choice) ==
    CASE choice \in PickColor -> new_with_cashout(<<"Inside", "Outside">>)
      [] choice \in PickLatitude -> new_with_cashout(<<"Inside", "Outside">>)
      [] choice \in PickContained ->
            new_with_cashout(<<"Hearts", "Diamonds", "Spades", "Clubs">>)
      [] choice \in PickSuit -> empty
      [] choice = "Cashout" -> empty

\* Choice::next_decision
next_decision(choice) ==
    CASE choice \in PickColor -> new_with_cashout(<<"Higher", "Lower">>)
      [] choice \in PickLatitude -> new_with_cashout(<<"Inside", "Outside">>)
      [] choice \in PickContained ->
            new_with_cashout(<<"Hearts", "Diamonds", "Spades", "Clubs">>)
      [] choice \in PickSuit -> empty
      [] choice = "Cashout" -> empty

\* The Option<DiscreteDecision> that solver.rs maps over: solver.rs is written
\* against a next_decision that returns an Option, mod.rs returns a decision
\* that may be empty.  An empty decision is "no next decision".
next_decision_opt(choice) ==
    IF next_decision(choice) = empty THEN <<>> ELSE <<next_decision(choice)>>

-----------------------------------------------------------------------------
(* decision/solver.rs *)

\* `new_pot < 1e-6`
EPS == Rat(1, 1000000)

\* Mutant: the pot before the card is tested.
is_lost_old_pot(pot, new_pot) == FLess(pot, EPS)

\* The test of RandomEventOutcome::evaluate that the outcome is lost.
is_lost(pot, new_pot) == FLess(new_pot, EPS)

\* Mutant: the event pushed last.
new_history_appended(event, history) == history \o <<event>>

\* new_history: the event pushed first, then the history.
new_history(event, history) == <<event>> \o history

\* Mutant: the filter on the history is missing.
card_iter_unfiltered(history) == solver_deck

\* deck_iter().filter(|card| !history.contains(card))
card_iter(history) == SelectSeq(solver_deck, LAMBDA card : ~Contains(history, card))

\* Mutant: the sum is divided by the size of the deck.
mean_of_deck(ev_sum, len) == FDivCount(ev_sum, Len(solver_deck))

\* ev_sum / all_random_events.len() as f64
mean(ev_sum, len) == FDivCount(ev_sum, len)

\* Mutant: unwrap_or(0).
count_unwrap_or_0(outcome) ==
    IF outcome.next_decision_tree = <<>> THEN 0
    ELSE outcome.next_decision_tree[1].outcomes

\* RandomEventOutcome::count
count(outcome) ==
    IF outcome.next_decision_tree = <<>> THEN 1
    ELSE outcome.next_decision_tree[1].outcomes

RECURSIVE SumCounts(_, _)
SumCounts(events, n) ==
    IF n = 0 THEN 0 ELSE SumCounts(events, n - 1) + count(events[n])

\* evaluated_choices.iter().flat_map(|c| c.iter()).map(|o| o.count()).sum()
RECURSIVE SumOutcomes(_, _)
SumOutcomes(choices, n) ==
    IF n = 0 THEN 0
    ELSE SumOutcomes(choices, n - 1)
         + SumCounts(choices[n].random_events, Len(choices[n].random_events))

\* Mutant: a tree counts at least one outcome.
outcomes_at_least_1(evaluated_choices) ==
    Max(1, SumOutcomes(evaluated_choices, Len(evaluated_choices)))

outcomes_of(evaluated_choices) == SumOutcomes(evaluated_choices, Len(evaluated_choices))

\* Mutant: the fold keeps the accumulator unless the next element is Greater.
RECURSIVE MaxByIdxFirst(_, _)
MaxByIdxFirst(choices, n) ==
    IF n = 0 THEN 0
    ELSE IF n = 1 THEN 1
    ELSE LET acc == MaxByIdxFirst(choices, n - 1)
         IN  IF total_cmp(choices[acc].expected_value, choices[n].expected_value) = -1
             THEN n ELSE acc

\* Iterator::max_by: a fold that keeps the accumulator only when it compares
\* Greater than the next element.  Returns the index kept, 0 for no element.
RECURSIVE MaxByIdx(_, _)
MaxByIdx(choices, n) ==
    IF n = 0 THEN 0
    ELSE IF n = 1 THEN 1
    ELSE LET acc == MaxByIdx(choices, n - 1)
         IN  IF total_cmp(choices[acc].expected_value, choices[n].expected_value) = 1
             THEN acc ELSE n

\* DiscreteDecisionTree::optimal, as the index of the choice it refers to.
optimal_idx(t) == MaxByIdx(t.choices, Len(t.choices))

\* DiscreteDecisionTree::optimal
optimal(t) == IF optimal_idx(t) = 0 THEN <<>> ELSE <<t.choices[optimal_idx(t)]>>

\* Mutant: the sub-tree is ignored.
outcome_value_pot(next_decision_tree, new_pot) == new_pot

\* The value of an outcome that is not lost.
outcome_value(next_decision_tree, new_pot) ==
    IF next_decision_tree = <<>> THEN new_pot
    ELSE IF optimal(next_decision_tree[1]) = <<>> THEN new_pot
    ELSE optimal(next_decision_tree[1])[1].expected_value

RECURSIVE compute(_, _, _)

\* RandomEventOutcome::evaluate.  Beside the three fields of the program,
\* `scored` records the slice handed to choice.score and `panic` that score,
\* or the computation below, panicked (the other values are then not produced).
RandomEventOutcome_evaluate(event, choice, pot, history) ==
    LET nh == new_history(event, history)
        new_pot == FMul(pot, score(choice, nh))
    IN  IF ScorePanics(choice, nh)
        THEN [event |-> event, value |-> F(0), next_decision_tree |-> <<>>,
              scored |-> nh, panic |-> TRUE]
        ELSE IF is_lost(pot, new_pot)
        THEN [event |-> event, value |-> F(0), next_decision_tree |-> <<>>,
              scored |-> nh, panic |-> FALSE]
        ELSE LET nd == next_decision_opt(choice)
                 ndt == IF nd = <<>> THEN <<>> ELSE <<compute(nd[1], new_pot, nh)>>
             IN  [event |-> event,
                  value |-> outcome_value(ndt, new_pot),
                  next_decision_tree |-> ndt,
                  scored |-> nh,
                  panic |-> IF ndt = <<>> THEN FALSE ELSE ndt[1].panic]

\* ev_sum after the loop of ChoiceEval::evaluate: ev_sum += random_event.value
\* for the first n outcomes, starting from 0.0.
RECURSIVE SumValues(_, _)
SumValues(events, n) ==
    IF n = 0 THEN F(0) ELSE FAdd(SumValues(events, n - 1), events[n].value)

\* ChoiceEval::evaluate: one outcome per card of card_iter, in its order.
\* (Appending the empty sequence makes TLC build the sequence once.)
ChoiceEval_evaluate(choice, pot, history) ==
    LET cards == card_iter(history)
        all_random_events ==
            [k \in 1..Len(cards) |->
                RandomEventOutcome_evaluate(cards[k], choice, pot, history)] \o <<>>
        ev_sum == SumValues(all_random_events, Len(all_random_events))
    IN  [choice |-> choice,
         expected_value |-> mean(ev_sum, Len(all_random_events)),
         random_events |-> all_random_events,
         panic |-> \E k \in 1..Len(all_random_events) : all_random_events[k].panic]

\* decision.into_iter().map(|choice| ChoiceEval::evaluate(..)).collect()
EvaluateChoices(decision, pot, history) ==
    [i \in 1..Len(decision) |-> ChoiceEval_evaluate(decision[i], pot, history)] \o <<>>

\* DiscreteDecisionTree::compute.  decision, pot and history record the
\* arguments of the call that built the tree.
compute(decision, pot, history) ==
    LET evaluated_choices == EvaluateChoices(decision, pot, history)
    IN  [choices |-> evaluated_choices,
         outcomes |-> outcomes_of(evaluated_choices),
         decision |-> decision,
         pot |-> pot,
         history |-> history,
         panic |-> \E i \in 1..Len(decision) : evaluated_choices[i].panic]

\* DiscreteDecisionTree::solve
solve(decision) == compute(decision, F(1), <<>>)

\* ChoiceEval::get: the first outcome of the choice for the event, if any.
get(choice_eval, event) ==
    LET found == SelectSeq(choice_eval.random_events, LAMBDA o : o.event = event)
    IN  IF found = <<>> THEN <<>> ELSE <<found[1]>>

\* The key interactive_prompt compares choices by:
\* c.get(next_card).map(|o| o.expected_value()).unwrap_or(0.0)
card_value(choice_eval, next_card) ==
    IF get(choice_eval, next_card) = <<>> THEN F(0)
    ELSE get(choice_eval, next_card)[1].value

\* Mutant: the user is taken to have made the optimal choice.
inferred_idx_optimal(t, next_card) == MaxByIdx(t.choices, Len(t.choices))

\* interactive_prompt: the choice the user is taken to have made, max_by over
\* card_value, as its position among the choices (0 for no choice).
inferred_idx(t, next_card) ==
    MaxByIdx([i \in 1..Len(t.choices) |->
                 [expected_value |-> card_value(t.choices[i], next_card)]] \o <<>>,
             Len(t.choices))

-----------------------------------------------------------------------------
(* The solver as a state machine *)

\* main's first decision.
ReferenceRoot == new_with_cashout(<<"Red", "Black">>)

\* Decisions handed to solve.
FirstDecisions ==
    { empty,
      new_with_cashout(<<>>),
      ReferenceRoot,
      new_with_cashout(<<"Hearts", "Diamonds", "Spades", "Clubs">>),
      new(<<"Cashout", "Spades">>),
      new(<<"Hearts", "Diamonds">>),
      new_with_cashout(<<"Higher", "Lower">>) }

InitSolver ==
    /\ first_decision \in FirstDecisions
    /\ pc = "start"
    /\ tree = <<>>

CardIdle ==
    /\ text = <<>>
    /\ parsed = <<"pending">>

\* interactive_prompt is not running.
PromptIdle ==
    /\ prompt_history = <<>>
    /\ ipc = "off"

\* solve returns the tree.
SolveOk ==
    /\ pc = "start"
    /\ LET t == solve(first_decision)
       IN  /\ ~t.panic
           /\ tree' = <<t>>
    /\ pc' = "solved"
    /\ UNCHANGED <<first_decision, text, parsed, prompt_vars>>

\* solve panics on an index out of range in score.
SolvePanic ==
    /\ pc = "start"
    /\ solve(first_decision).panic
    /\ pc' = "panicked"
    /\ UNCHANGED <<first_decision, tree, text, parsed, prompt_vars>>

\* Introspection: ChoiceEval::get(event) of choice i, then next_decision(),
\* moves to the child tree of that outcome.
Descend ==
    /\ pc = "solved"
    /\ \E i \in 1..Len(tree[1].choices) :
         \E k \in 1..Len(tree[1].choices[i].random_events) :
            LET o == tree[1].choices[i].random_events[k]
            IN  /\ o.next_decision_tree # <<>>
                /\ tree' = o.next_decision_tree
    /\ UNCHANGED <<first_decision, pc, text, parsed, prompt_vars>>

Next == SolveOk \/ SolvePanic \/ Descend

Init == InitSolver /\ CardIdle /\ PromptIdle

Spec == Init /\ [][Next]_vars

-----------------------------------------------------------------------------
(* The card model as a state machine *)

\* The lower-case spelling of a label, as a user may type it.
LowerChar(ch) ==
    CASE ch = "H" -> "h" [] ch = "D" -> "d" [] ch = "S" -> "s" [] ch = "C" -> "c"
      [] ch = "J" -> "j" [] ch = "Q" -> "q" [] ch = "K" -> "k" [] ch = "A" -> "a"
      [] OTHER -> ch

Lower(s) == [i \in 1..Len(s) |-> LowerChar(s[i])]

\* Texts that are no card's label.
JunkTexts ==
    { <<>>, <<"1", "H">>, <<"1", "1", "S">>, <<"H", "2">>, <<"2", "H", "H">>,
      <<"2", "x">>, <<"1", "0">>, <<"2", "H", " ">>, <<"0", "H">>, <<"a", "eszett">>,
      <<"1", "h">>, <<"K">> }

\* Texts handed to from_str: every label, every label in lower case, a label
\* with the long s for its suit, and texts that are no label.
TypedTexts ==
    {fmt(deck_iter[i]) : i \in 1..Len(deck_iter)}
    \cup {Lower(fmt(deck_iter[i])) : i \in 1..Len(deck_iter)}
    \cup {<<"q", "long_s">>}
    \cup JunkTexts

SolverIdle ==
    /\ first_decision = empty
    /\ pc = "start"
    /\ tree = <<>>

InitCard ==
    /\ text \in TypedTexts
    /\ parsed = <<"pending">>
    /\ SolverIdle
    /\ PromptIdle

\* PlayingCard::from_str(text)
FromStr ==
    /\ parsed = <<"pending">>
    /\ parsed' = from_str(text)
    /\ UNCHANGED <<text, first_decision, pc, tree, prompt_vars>>

\* format!("{}", card) of the parsed card, handed to from_str again.
Display ==
    /\ parsed[1] = "ok"
    /\ text' = fmt(parsed[2])
    /\ parsed' = <<"pending">>
    /\ UNCHANGED <<first_decision, pc, tree, prompt_vars>>

NextCard == FromStr \/ Display

SpecCard == InitCard /\ [][NextCard]_vars

-----------------------------------------------------------------------------
(* main and interactive_prompt as a state machine *)

\* The tree a reference of prompt_history points to, from tree t.
RECURSIVE TreeAt(_, _)
TreeAt(t, path) ==
    IF path = <<>> THEN t
    ELSE TreeAt(t.choices[path[1][1]].random_events[path[1][2]].next_decision_tree[1],
                Tail(path))

\* history.last()
TopTree == TreeAt(tree[1], prompt_history[Len(prompt_history)])

\* Cards of Command::Card.
TypedCards == {solver_deck[i] : i \in 1..NumTypedCards}

\* Where the outcome of a choice for a card stands among its outcomes.
PositionOf(choice_eval, card) ==
    CHOOSE k \in 1..Len(choice_eval.random_events) :
        /\ choice_eval.random_events[k].event = card
        /\ \A j \in 1..(k - 1) : choice_eval.random_events[j].event # card

\* main before it solves the reference game.
InitPrompt ==
    /\ first_decision = ReferenceRoot
    /\ pc = "start"
    /\ tree = <<>>
    /\ CardIdle
    /\ PromptIdle

\* main's loop calls interactive_prompt(&tree): let mut history = vec![tree].
EnterPrompt ==
    /\ pc = "solved"
    /\ ipc = "off"
    /\ prompt_history' = << <<>> >>
    /\ ipc' = "top"
    /\ UNCHANGED <<first_decision, pc, tree, text, parsed>>

\* The top of 'outer: history.last().expect("non-empty history") is some tree.
ReadTop ==
    /\ ipc = "top"
    /\ prompt_history # <<>>
    /\ ipc' = "prompt"
    /\ UNCHANGED <<first_decision, pc, tree, text, parsed, prompt_history>>

\* The top of 'outer: history.last() is None and expect panics.
ReadTopPanics ==
    /\ ipc = "top"
    /\ prompt_history = <<>>
    /\ ipc' = "panicked"
    /\ UNCHANGED <<first_decision, pc, tree, text, parsed, prompt_history>>

\* Command::Help, ListChoices, ListEvents: print, and read the next command.
CmdPrint ==
    /\ ipc = "prompt"
    /\ UNCHANGED vars

\* Command::Exit
CmdExit ==
    /\ ipc = "prompt"
    /\ ipc' = "exited"
    /\ UNCHANGED <<first_decision, pc, tree, text, parsed, prompt_history>>

\* Command::Reset: interactive_prompt returns and main's loop calls it again.
CmdReset ==
    /\ ipc = "prompt"
    /\ prompt_history' = << <<>> >>
    /\ ipc' = "top"
    /\ UNCHANGED <<first_decision, pc, tree, text, parsed>>

\* Command::Back: history.remove(history.len() - 1); continue 'outer
CmdBack ==
    /\ ipc = "prompt"
    /\ prompt_history' = SubSeq(prompt_history, 1, Len(prompt_history) - 1)
    /\ ipc' = "top"
    /\ UNCHANGED <<first_decision, pc, tree, text, parsed>>

\* The outcome interactive_prompt matches on for a card: of the inferred
\* choice, the outcome for the card, if any.
prompt_outcome(t, next_card) ==
    IF inferred_idx(t, next_card) = 0 THEN <<>>
    ELSE get(t.choices[inferred_idx(t, next_card)], next_card)

\* Command::Card, the outcome has a child tree: history.push(child).
CmdCardChild ==
    /\ ipc = "prompt"
    /\ \E next_card \in TypedCards :
          LET i == inferred_idx(TopTree, next_card)
              outcome == prompt_outcome(TopTree, next_card)
          IN  /\ outcome # <<>>
              /\ outcome[1].next_decision_tree # <<>>
              /\ prompt_history' =
                    Append(prompt_history,
                           Append(prompt_history[Len(prompt_history)],
                                  <<i, PositionOf(TopTree.choices[i], next_card)>>))
    /\ ipc' = "top"
    /\ UNCHANGED <<first_decision, pc, tree, text, parsed>>

\* Command::Card, no outcome for the card: "INVALID CARD PROVIDED", and the
\* loop goes on.
CmdCardInvalid ==
    /\ ipc = "prompt"
    /\ \E next_card \in TypedCards : prompt_outcome(TopTree, next_card) = <<>>
    /\ ipc' = "top"
    /\ UNCHANGED <<first_decision, pc, tree, text, parsed, prompt_history>>

\* Command::Card, an outcome without a child tree: break 'outer, the prompt
\* returns and main's loop calls it again.
CmdCardNoChild ==
    /\ ipc = "prompt"
    /\ \E next_card \in TypedCards :
          LET outcome == prompt_outcome(TopTree, next_card)
          IN  /\ outcome # <<>>
              /\ outcome[1].next_decision_tree = <<>>
    /\ prompt_history' = << <<>> >>
    /\ ipc' = "top"
    /\ UNCHANGED <<first_decision, pc, tree, text, parsed>>

NextPrompt ==
    \/ SolveOk
    \/ EnterPrompt
    \/ ReadTop
    \/ ReadTopPanics
    \/ CmdPrint
    \/ CmdExit
    \/ CmdReset
    \/ CmdBack
    \/ CmdCardChild
    \/ CmdCardInvalid
    \/ CmdCardNoChild

SpecPrompt == InitPrompt /\ [][NextPrompt]_vars

-----------------------------------------------------------------------------
(* Properties.  Node is the tree under inspection: Descend reaches every     *)
(* tree of the solved tree, so an invariant about Node is a statement about  *)
(* every node.                                                               *)

Solved == pc = "solved"

Node == tree[1]

ChoiceIdx == 1..Len(Node.choices)

EventsOf(i) == Node.choices[i].random_events

EventIdx(i) == 1..Len(EventsOf(i))

\* Choice i of t has the greatest expected value of t (in total_cmp's order).
IsMaxAt(t, i) ==
    \A j \in 1..Len(t.choices) :
        total_cmp(t.choices[j].expected_value, t.choices[i].expected_value) # 1

\* C1 (as claimed): in every solved node with at least one choice, optimal()
\* returns a choice of maximum expected value, and of several such choices
\* the first in the decision's order.
C1_OptimalIsFirstMax ==
    (Solved /\ Node.choices # <<>>) =>
        /\ optimal(Node) = <<Node.choices[optimal_idx(Node)]>>
        /\ IsMaxAt(Node, optimal_idx(Node))
        /\ \A j \in ChoiceIdx : j < optimal_idx(Node) => ~IsMaxAt(Node, j)

\* C1 (amended): in every solved node with at least one choice, optimal()
\* returns a choice of maximum expected value, and of several such choices
\* the last in the decision's order.
C1_OptimalIsLastMax ==
    (Solved /\ Node.choices # <<>>) =>
        /\ optimal(Node) = <<Node.choices[optimal_idx(Node)]>>
        /\ IsMaxAt(Node, optimal_idx(Node))
        /\ \A j \in ChoiceIdx : j > optimal_idx(Node) => ~IsMaxAt(Node, j)

\* C1 witness: the root of the reference game, where Red and Black tie above
\* Cashout and optimal() is Black.
C1_RedBlackTie ==
    /\ Solved
    /\ Node.decision = ReferenceRoot
    /\ Node.history = <<>>
    /\ Node.choices[1].expected_value = Node.choices[2].expected_value
    /\ total_cmp(Node.choices[3].expected_value, Node.choices[1].expected_value) = -1
    /\ optimal(Node)[1].choice = "Black"

C2_CountOf(o) ==
    IF o.next_decision_tree = <<>> THEN 1 ELSE o.next_decision_tree[1].outcomes

RECURSIVE C2_SumOverEvents(_, _)
C2_SumOverEvents(events, n) ==
    IF n = 0 THEN 0 ELSE C2_CountOf(events[n]) + C2_SumOverEvents(events, n - 1)

RECURSIVE C2_SumOverChoices(_, _)
C2_SumOverChoices(choices, n) ==
    IF n = 0 THEN 0
    ELSE C2_SumOverEvents(choices[n].random_events, Len(choices[n].random_events))
         + C2_SumOverChoices(choices, n - 1)

C2_SingleLevel(t) == \A i \in 1..Len(t.decision) : next_decision(t.decision[i]) = empty

UnseenCards(history) == SeqToSet(solver_deck) \ SeqToSet(history)

\* C2: the outcome count of every solved tree is the sum, over its choices and
\* their candidate cards, of 1 for an outcome without a child tree and of the
\* child's outcome count otherwise; a single-level decision with k choices
\* and m cards not in the history has outcome count k * m.
C2_OutcomeCount ==
    Solved =>
        /\ Node.outcomes = C2_SumOverChoices(Node.choices, Len(Node.choices))
        /\ C2_SingleLevel(Node) =>
              Node.outcomes = Len(Node.decision) * Cardinality(UnseenCards(Node.history))

\* C2 witness: a fourth-stage node of the reference game (five choices, three
\* cards seen).
C2_SuitStageCount ==
    /\ Solved
    /\ Len(Node.history) = 3
    /\ Len(Node.decision) = 5
    /\ C2_SingleLevel(Node)
    /\ Node.outcomes = 5 * (Len(solver_deck) - 3)

\* C3 (as claimed): Cashout has expected value exactly 1.0 in every node.
C3_CashoutAlwaysOne ==
    Solved =>
        \A i \in ChoiceIdx :
            Node.choices[i].choice = "Cashout" => Node.choices[i].expected_value = F(1)

\* C3 (amended): Cashout's expected value is the pot of its node, whatever the
\* history: 1.0 in the root built by solve, and k at stage k of the reference
\* game.
C3_CashoutIsPot ==
    Solved =>
        \A i \in ChoiceIdx :
            Node.choices[i].choice = "Cashout" =>
                /\ Node.choices[i].expected_value = Node.pot
                /\ Node.history = <<>> => Node.choices[i].expected_value = F(1)
                /\ first_decision = ReferenceRoot =>
                      Node.choices[i].expected_value = F(Len(Node.history) + 1)

\* C3 witness: Cashout at the third stage of the reference game is worth 3.
C3_CashoutAtStage3 ==
    /\ Solved
    /\ first_decision = ReferenceRoot
    /\ Len(Node.history) = 2
    /\ \E i \in ChoiceIdx :
          /\ Node.choices[i].choice = "Cashout"
          /\ Node.choices[i].expected_value = F(3)

\* C4: solving a decision with zero choices does not fail and yields a tree
\* whose optimal() is none and whose outcome count is 0.
C4_ZeroChoices ==
    (first_decision = empty /\ pc # "start") =>
        /\ Solved
        /\ Node.choices = <<>>
        /\ optimal(Node) = <<>>
        /\ Node.outcomes = 0

\* C4 witness: the empty decision solved.
C4_EmptySolved ==
    /\ Solved
    /\ first_decision = empty
    /\ Node.decision = empty

RECURSIVE C5_SumOfValues(_, _)
C5_SumOfValues(events, n) ==
    IF n = 0 THEN F(0) ELSE FAdd(C5_SumOfValues(events, n - 1), events[n].value)

\* C5: every evaluated choice of a node with history h has exactly one outcome
\* for each deck card not in h and none for a card of h, and its expected
\* value times the number of outcomes is the sum of their values.
C5_MeanOverUnseenCards ==
    Solved =>
        \A i \in ChoiceIdx :
            LET events == EventsOf(i)
                n == Len(events)
            IN  /\ n = Len(solver_deck) - Len(Node.history)
                /\ {events[k].event : k \in 1..n} = UnseenCards(Node.history)
                /\ \A k1, k2 \in 1..n : events[k1].event = events[k2].event => k1 = k2
                /\ FMul(Node.choices[i].expected_value, F(n)) = C5_SumOfValues(events, n)

\* C5 witness: Inside at a third-stage node, with a mean that is no integer.
C5_InsideMean ==
    /\ Solved
    /\ Len(Node.history) = 2
    /\ Node.choices[1].choice = "Inside"
    /\ Node.choices[1].expected_value[2] > 1
    /\ Len(EventsOf(1)) = Len(solver_deck) - 2

C6_IsLost(o) == o.value = F(0) /\ o.next_decision_tree = <<>>

\* pot * choice.score([card] followed by history) for outcome k of choice i.
NewPotOf(i, k) ==
    FMul(Node.pot, score(Node.choices[i].choice, <<EventsOf(i)[k].event>> \o Node.history))

\* C6: an outcome whose new pot is below 1e-6 is Lost: value 0.0 and no child
\* tree; so is every black card's outcome for Red from the empty history.
C6_LostBelowThreshold ==
    Solved =>
        \A i \in ChoiceIdx : \A k \in EventIdx(i) :
            /\ FLess(NewPotOf(i, k), Rat(1, 1000000)) => C6_IsLost(EventsOf(i)[k])
            /\ (/\ Node.history = <<>>
                /\ Node.choices[i].choice = "Red"
                /\ color(EventsOf(i)[k].event) = 1) => C6_IsLost(EventsOf(i)[k])

\* C6 witness: Red at the root of the reference game loses on a black card
\* and goes on after a red one.
C6_RedLosesOnBlack ==
    /\ Solved
    /\ Node.decision = ReferenceRoot
    /\ Node.choices[1].choice = "Red"
    /\ \E k \in EventIdx(1) :
          color(EventsOf(1)[k].event) = 1 /\ C6_IsLost(EventsOf(1)[k])
    /\ \E k \in EventIdx(1) :
          color(EventsOf(1)[k].event) = 0 /\ EventsOf(1)[k].next_decision_tree # <<>>

\* C7: a deck card's label, typed in upper or lower case, parses to that card
\* (so the 52 labels differ pairwise); a text that is no card's label after
\* upper-casing parses to the invalid-card error.
C7_RoundTrip ==
    parsed # <<"pending">> =>
        /\ \A c \in SeqToSet(deck_iter) :
              (text = fmt(c) \/ text = Lower(fmt(c))) => parsed = <<"ok", c>>
        /\ (\A c \in SeqToSet(deck_iter) : to_uppercase(text) # fmt(c)) =>
              parsed = <<"err">>
        /\ \A c, d \in SeqToSet(deck_iter) : fmt(c) = fmt(d) => c = d

\* C7 witness: "10c" parsed to the ten of clubs.
C7_LowerTenOfClubs ==
    /\ text = <<"1", "0", "c">>
    /\ parsed = <<"ok", 35>>

\* C8: an outcome that is not Lost is a Leaf (no child tree, value the new
\* pot) when the choice's next decision is empty, and otherwise a Child owning
\* the tree computed from (next decision, new pot, new history), its value the
\* expected value of that tree's optimal choice.
C8_LeafOrChild ==
    Solved =>
        \A i \in ChoiceIdx : \A k \in EventIdx(i) :
            LET o == EventsOf(i)[k]
                c == Node.choices[i].choice
            IN  ~FLess(NewPotOf(i, k), Rat(1, 1000000)) =>
                    IF next_decision(c) = empty
                    THEN /\ o.next_decision_tree = <<>>
                         /\ o.value = NewPotOf(i, k)
                    ELSE /\ o.next_decision_tree # <<>>
                         /\ o.next_decision_tree[1].decision = next_decision(c)
                         /\ o.next_decision_tree[1].pot = NewPotOf(i, k)
                         /\ o.next_decision_tree[1].history = <<o.event>> \o Node.history
                         /\ optimal(o.next_decision_tree[1]) # <<>>
                         /\ o.value = optimal(o.next_decision_tree[1])[1].expected_value

\* C8 witness: a node with a Child outcome worth more than its pot and a Leaf
\* outcome worth its pot.
C8_ChildAndLeaf ==
    /\ Solved
    /\ \E i \in ChoiceIdx : \E k \in EventIdx(i) :
          /\ EventsOf(i)[k].next_decision_tree # <<>>
          /\ total_cmp(EventsOf(i)[k].value, EventsOf(i)[k].next_decision_tree[1].pot) = 1
    /\ \E i \in ChoiceIdx : \E k \in EventIdx(i) :
          /\ EventsOf(i)[k].next_decision_tree = <<>>
          /\ EventsOf(i)[k].value = NewPotOf(i, k)
          /\ EventsOf(i)[k].value # F(0)

NoRepeat(s) == \A j1, j2 \in 1..Len(s) : s[j1] = s[j2] => j1 = j2

\* C9: the history of every call of compute holds deck cards only and none
\* twice; the history of a child call is the candidate card followed by the
\* parent's history, and the candidate is not in the parent's history.
C9_HistoryOfDistinctCards ==
    Solved =>
        /\ SeqToSet(Node.history) \subseteq SeqToSet(deck_iter)
        /\ NoRepeat(Node.history)
        /\ \A i \in ChoiceIdx : \A k \in EventIdx(i) :
              LET o == EventsOf(i)[k]
              IN  /\ ~Contains(Node.history, o.event)
                  /\ o.scored = <<o.event>> \o Node.history
                  /\ o.next_decision_tree # <<>> =>
                        o.next_decision_tree[1].history = <<o.event>> \o Node.history

\* C9 witness: a node two cards deep with a child call three cards deep.
C9_ThirdCardPrepended ==
    /\ Solved
    /\ Len(Node.history) = 2
    /\ \E i \in ChoiceIdx : \E k \in EventIdx(i) :
          /\ EventsOf(i)[k].next_decision_tree # <<>>
          /\ Len(EventsOf(i)[k].next_decision_tree[1].history) = 3
          /\ Head(EventsOf(i)[k].next_decision_tree[1].history) = EventsOf(i)[k].event

Stage(choice) ==
    CASE choice \in PickColor -> 1
      [] choice \in PickLatitude -> 2
      [] choice \in PickContained -> 3
      [] choice \in PickSuit -> 4

\* C10: solving the reference game never panics; every score call on a choice
\* offered at stage k (Cashout too) receives k cards, which covers every index
\* it reads; every evaluated choice has a candidate card; no node lies past
\* the fourth stage and a fourth-stage outcome has no child.
C10_ReferenceStages ==
    first_decision = ReferenceRoot =>
        /\ pc # "panicked"
        /\ Solved =>
              /\ Len(Node.history) <= 3
              /\ Stage(Node.decision[1]) = Len(Node.history) + 1
              /\ \A i \in ChoiceIdx :
                    /\ Len(EventsOf(i)) > 0
                    /\ Node.choices[i].choice # "Cashout" =>
                          Stage(Node.choices[i].choice) = Stage(Node.decision[1])
                    /\ \A k \in EventIdx(i) :
                          /\ Len(EventsOf(i)[k].scored) = Stage(Node.decision[1])
                          /\ CardsRead(Node.choices[i].choice) <= Len(EventsOf(i)[k].scored)
                          /\ ~EventsOf(i)[k].panic
                          /\ Stage(Node.decision[1]) = 4 =>
                                EventsOf(i)[k].next_decision_tree = <<>>

\* C10 witness: the suit stage of the reference game, scored on four cards.
C10_SuitStageScored ==
    /\ Solved
    /\ first_decision = ReferenceRoot
    /\ Node.decision[1] = "Hearts"
    /\ Node.choices[5].choice = "Cashout"
    /\ Len(EventsOf(5)[1].scored) = 4
    /\ Len(EventsOf(1)) = Len(solver_deck) - 3

\* The value of choice i of Node for a card.
ValueFor(i, card) == card_value(Node.choices[i], card)

\* The choices of Node, Cashout apart, that do not lose on the card.
Winners(card) ==
    {i \in ChoiceIdx : Node.choices[i].choice # "Cashout" /\ ValueFor(i, card) # F(0)}

\* C11: at every node of the solved reference game and for every card not in
\* its history, exactly one choice other than Cashout has a value that is not
\* zero for the card, Cashout's value for the card is strictly less, and the
\* choice the prompt infers for the card is that one.
C11_InferredIsTheWinner ==
    (Solved /\ first_decision = ReferenceRoot) =>
        \A card \in UnseenCards(Node.history) :
            /\ Cardinality(Winners(card)) = 1
            /\ \A w \in Winners(card) :
                  /\ \A i \in ChoiceIdx :
                        Node.choices[i].choice = "Cashout" =>
                            /\ get(Node.choices[i], card) # <<>>
                            /\ FLess(ValueFor(i, card), ValueFor(w, card))
                  /\ inferred_idx(Node, card) = w

\* C11 witness: after the three of hearts, the two of spades is taken as
\* Lower, which is not the optimal choice of the node.
C11_LowerInferred ==
    /\ Solved
    /\ first_decision = ReferenceRoot
    /\ Node.history = <<4>>
    /\ Node.choices[inferred_idx(Node, 2)].choice = "Lower"
    /\ optimal(Node)[1].choice # "Lower"
    /\ Winners(2) = {2}

\* C12: in interactive_prompt the stack of visited trees is not empty when
\* its top is read at the start of a loop iteration, whatever commands were
\* given, and the prompt does not abort; so after `back` at the root tree.
C12_StackNotEmptyAtTop ==
    /\ ipc = "top" => prompt_history # <<>>
    /\ ipc # "panicked"

=============================================================================
